---- MODULE Spec2Model ----
(***************************************************************************)
(* dex-trader-mcp: the five tool handlers of src/index.ts, the Jupiter     *)
(* client of src/jupiter.ts and the wallet / RPC helpers of src/solana.ts. *)
(*                                                                         *)
(* Every invocation of a handler runs in a slot.  A handler is cut at its  *)
(* awaits: the action that starts it runs its synchronous prefix up to the *)
(* first network call, and every response action runs the code from that  *)
(* await up to the next one (or up to the return).  The aggregation        *)
(* service, the RPC endpoint and the ledger are the environment: a         *)
(* response is any outcome the call can have.                              *)
(*                                                                         *)
(* Numbers: in the handlers' state machine a JavaScript number that is not *)
(* an integer is a reduced fraction <<n, d>>.  The amounts there are       *)
(* dyadic fractions and integers below 2^31, on which IEEE-754 double      *)
(* arithmetic is exact, so the fraction is the double.  The conversions    *)
(* between human and raw amounts are modelled a second time on IEEE-754    *)
(* doubles of the full range (SpecAmounts), where rounding shows.          *)
(***************************************************************************)
EXTENDS Integers, Sequences, FiniteSets, TLC

(***************************************************************************)
(* The field names of the model's records, and where each is used.  Record *)
(* constructors list their fields in this order.                           *)
(***************************************************************************)
FieldNames ==
    [amount |-> "quote request, token balance",
     body |-> "HTTP response",
     buyOutAmount |-> "handler local",
     buyQuote |-> "handler local",
     buyTxid |-> "handler local",
     buy_transaction |-> "result object",
     call |-> "external call",
     calls |-> "handler step",
     decimals |-> "result object",
     digits |-> "decimal literal",
     error |-> "handler local",
     explorer |-> "result object",
     explorer_buy |-> "result object",
     explorer_sell |-> "result object",
     exponent |-> "double",
     id |-> "handler local",
     inAmount |-> "JupiterQuote",
     inputAmount |-> "result object",
     inputMint |-> "JupiterQuote",
     input_decimals |-> "tool parameter",
     input_mint |-> "tool parameter",
     json |-> "handler outcome",
     kind |-> "handler outcome",
     leg |-> "external call",
     locals |-> "handler step",
     mantissa |-> "double",
     message |-> "handler outcome",
     mint |-> "result object",
     mints |-> "external call",
     msg |-> "getKeypair outcome",
     net_sol |-> "result object",
     ok |-> "getKeypair outcome",
     outAmount |-> "JupiterQuote",
     outputAmount |-> "result object",
     outputMint |-> "JupiterQuote",
     output_mint |-> "tool parameter",
     param |-> "quote request",
     pc |-> "handler step",
     phase |-> "result object",
     profit_sol |-> "result object",
     quote |-> "handler local",
     rawAmount |-> "handler local",
     req |-> "handler local",
     response |-> "getQuote local",
     result |-> "handler step",
     scale |-> "decimal literal",
     sell_error |-> "result object",
     sell_transaction |-> "result object",
     slippageBps |-> "JupiterQuote",
     slippage_bps |-> "tool parameter",
     solBalance |-> "handler local",
     solReceived |-> "result object",
     solSpent |-> "result object",
     sol_amount |-> "tool parameter",
     sol_received |-> "result object",
     sol_spent |-> "result object",
     stage |-> "amount conversion",
     status |-> "result object",
     text |-> "handler outcome",
     tokenAccounts |-> "getTokenBalance local",
     tokenAmount |-> "handler local",
     tokenBalance |-> "result object",
     tokenDecimals |-> "handler local",
     tokenMint |-> "result object",
     tokenReceived |-> "result object",
     tokenSold |-> "result object",
     token_address |-> "tool parameter",
     token_amount |-> "tool parameter",
     token_decimals |-> "tool parameter",
     token_mint |-> "result object",
     token_received |-> "result object",
     token_sold |-> "result object",
     tool |-> "transport outcome",
     transaction |-> "result object",
     txid |-> "handler local",
     uiAmount |-> "result object",
     wallet |-> "result object"]

(***************************************************************************)
(* Program constants                                                       *)
(***************************************************************************)
SOL_MINT == "So11111111111111111111111111111111111111112"

SOL_DECIMALS == 9

LAMPORTS_PER_SOL == 1000000000

(***************************************************************************)
(* Bounds of the model                                                     *)
(***************************************************************************)
\* invocations dispatched in one behaviour
MaxInvocations == 2

\* handlers that can be suspended at an await at the same time
Slots == {1, 2}

\* values of process.env.SOLANA_PRIVATE_KEY: unset, not base58, a key
Secrets == {"absent", "malformed", "valid"}

\* token_address of buy_and_sell: the literal "SOL" and two tokens
Tokens == {"SOL", "MintA", "MintB"}

\* mint parameters of the single-swap tools, get_quote and get_balance
QuoteMints == {"SOL", "MintA"}

\* strings new PublicKey() accepts (base58 of 32 bytes)
ValidPublicKeys == {SOL_MINT, "MintA", "MintB"}

\* human amounts (JavaScript numbers) a caller passes
SolAmounts == {<<1, 2>>}

TokenAmounts == {<<3, 2>>}

TokenDecimals == {1}

SlippageBps == {50}

\* outAmount of a quote: raw token units of a buy, lamports of a sell
BuyOutAmounts == {15}

SellOutAmounts == {250000000, 1500000000}

\* non-success answers of the aggregation service: <<status, body>>
HttpFailures == {<<"429", "Rate limit exceeded">>,
                 <<"400", "Could not find any route">>}

\* decimals of a mint account on the ledger (immutable once created)
OnChainDecimals ==
    [m \in ValidPublicKeys |->
        IF m = SOL_MINT THEN SOL_DECIMALS ELSE IF m = "MintA" THEN 1 ELSE 0]

BalanceLamports == {500000000}

\* JSON numbers a caller can pass where the schema wants a positive number
InvalidAmounts == {<<0, 1>>, <<-1, 2>>}

\* ... an integer from 0 to 18
InvalidDecimals == {<<-1, 1>>, <<19, 1>>, <<3, 2>>}

\* ... an integer from 1 to 5000
InvalidSlippages == {<<0, 1>>, <<5001, 1>>, <<101, 2>>}

(***************************************************************************)
(* JavaScript numbers                                                      *)
(***************************************************************************)
\* Euclid's algorithm, as a function so that its arguments are values
GcdOf[a \in Nat, b \in Nat] == IF b = 0 THEN a ELSE GcdOf[b, a % b]

Gcd(a, b) == GcdOf[a, b]

Abs(n) == IF n < 0 THEN -n ELSE n

\* the number n/d, d > 0, as a reduced fraction
Num(n, d) == LET g == Gcd(Abs(n), d) IN <<n \div g, d \div g>>

RECURSIVE Pow10(_)
Pow10(k) == IF k = 0 THEN 1 ELSE 10 * Pow10(k - 1)

\* x * k for an integer k > 0
NumTimes(x, k) == LET g == Gcd(k, x[2]) IN Num(x[1] * (k \div g), x[2] \div g)

\* x / k for an integer k > 0
NumOver(x, k) == LET g == Gcd(Abs(x[1]), k) IN Num(x[1] \div g, x[2] * (k \div g))

NumMinus(x, y) == Num(x[1] * y[2] - y[1] * x[2], x[2] * y[2])

\* Math.round: the nearest integer, a tie goes up
MathRound(x) == (x[1] \div x[2]) + (IF 2 * (x[1] % x[2]) >= x[2] THEN 1 ELSE 0)

\* Number(s) of a decimal integer string
NumberOf(raw) == Num(raw, 1)

(***************************************************************************)
(* JavaScript numbers of the full range: IEEE-754 doubles.                 *)
(*                                                                         *)
(* A natural number of any size is a sequence of limbs in base 10000, the  *)
(* least significant first, without leading zeros; zero is << >>.  A       *)
(* positive double is mantissa * 2^exponent with 2^52 <= mantissa < 2^53;  *)
(* the amounts are far from the subnormal and the infinite range.  Every   *)
(* operation is the exact result rounded to nearest, ties to even.         *)
(***************************************************************************)
BigLimb(a, i) == IF i >= 1 /\ i <= Len(a) THEN a[i] ELSE 0

\* a function on 1..n as the sequence of its values
Limbs(f) == SubSeq(f, 1, Len(f))

\* the number without leading zero limbs
BigTrim(a) ==
    LET used == {i \in 1..Len(a) : a[i] # 0}
    IN IF used = {} THEN << >>
       ELSE SubSeq(a, 1, CHOOSE i \in used : \A j \in used : j <= i)

\* the number n < 2^31
BigOfInt(n) ==
    BigTrim(<<n % 10000, (n \div 10000) % 10000, n \div 100000000>>)

\* limb sums r, each at most 19998: whether limb i carries into limb i + 1
Carries(r, i) ==
    \E j \in 1..i : r[j] >= 10000 /\ \A l \in (j + 1)..i : r[l] = 9999

\* the number whose limb sums are r
BigOfSums(r) ==
    BigTrim([i \in 1..(Len(r) + 1) |->
                (BigLimb(r, i) + (IF i > 1 /\ Carries(r, i - 1) THEN 1 ELSE 0))
                    % 10000])

BigPlus(a, b) ==
    BigOfSums(Limbs([i \in 1..(IF Len(a) > Len(b) THEN Len(a) ELSE Len(b)) |->
                        BigLimb(a, i) + BigLimb(b, i)]))

\* a * k for 0 < k <= 200000: the products of the limbs, split in three
BigTimesSmall(a, k) ==
    LET p(i) == BigLimb(a, i) * k
        r == Limbs([i \in 1..(Len(a) + 2) |->
                     (p(i) % 10000) + ((p(i - 1) \div 10000) % 10000)
                         + (p(i - 2) \div 100000000)])
    IN BigOfSums(Limbs([i \in 1..(Len(a) + 3) |->
                          (BigLimb(r, i) % 10000)
                              + (BigLimb(r, i - 1) \div 10000)]))

\* limb differences d: whether limb i borrows from limb i + 1
Borrows(d, i) ==
    \E j \in 1..i : d[j] < 0 /\ \A l \in (j + 1)..i : d[l] = 0

\* a - b for a >= b
BigMinus(a, b) ==
    LET d == Limbs([i \in 1..Len(a) |-> a[i] - BigLimb(b, i)])
    IN BigTrim([i \in 1..Len(a) |->
                  (d[i] - (IF i > 1 /\ Borrows(d, i - 1) THEN 1 ELSE 0) + 10000)
                      % 10000])

\* -1, 0, 1 as a < b, a = b, a > b
BigCmp(a, b) ==
    IF Len(a) # Len(b) THEN (IF Len(a) < Len(b) THEN -1 ELSE 1)
    ELSE LET differ == {i \in 1..Len(a) : a[i] # b[i]}
         IN IF differ = {} THEN 0
            ELSE LET top == CHOOSE i \in differ : \A j \in differ : j <= i
                 IN IF a[top] < b[top] THEN -1 ELSE 1

BigIsOdd(a) == a # << >> /\ a[1] % 2 = 1

\* a * 10000^c
BigShiftLeft(a, c) ==
    IF a = << >> THEN a
    ELSE Limbs([i \in 1..(c + Len(a)) |-> IF i <= c THEN 0 ELSE a[i - c]])

PowersOf10 == <<1, 10, 100, 1000>>

PowersOf2 ==
    <<2, 4, 8, 16, 32, 64, 128, 256, 512, 1024, 2048, 4096, 8192, 16384, 32768,
      65536, 131072>>

PowersOf5 == <<5, 25, 125, 625, 3125, 15625, 78125>>

\* a * 10^n
BigTimesPow10(a, n) ==
    BigShiftLeft(BigTimesSmall(a, PowersOf10[(n % 4) + 1]), n \div 4)

\* <<a div 10^n, whether a remainder was dropped>>
BigOverPow10(a, n) ==
    LET c == (n + 3) \div 4
        scaled == BigTimesSmall(a, PowersOf10[4 * c - n + 1])
    IN <<IF c >= Len(scaled) THEN << >> ELSE SubSeq(scaled, c + 1, Len(scaled)),
         \E i \in 1..c : BigLimb(scaled, i) # 0>>

\* a * 2^n
RECURSIVE BigTimesPow2(_, _)
BigTimesPow2(a, n) ==
    IF a = << >> \/ n = 0 THEN a
    ELSE IF n > 17 THEN BigTimesPow2(BigTimesSmall(a, PowersOf2[17]), n - 17)
    ELSE BigTimesSmall(a, PowersOf2[n])

\* a * 5^n
RECURSIVE BigTimesPow5(_, _)
BigTimesPow5(a, n) ==
    IF a = << >> \/ n = 0 THEN a
    ELSE IF n > 7 THEN BigTimesPow5(BigTimesSmall(a, PowersOf5[7]), n - 7)
    ELSE BigTimesSmall(a, PowersOf5[n])

\* <<a div 2^n, whether a remainder was dropped>>: a * 5^n div 10^n
BigOverPow2(a, n) == BigOverPow10(BigTimesPow5(a, n), n)

BigOverPow5(a, n) == BigOverPow10(BigTimesPow2(a, n), n)

BigPow2(n) == BigTimesPow2(<<1>>, n)

BigHalf(a) == BigOverPow2(a, 1)[1]

\* the number of binary digits of a > 0
BitLength(a) ==
    CHOOSE b \in (13 * (Len(a) - 1) + 1)..(14 * Len(a)) :
        BigCmp(a, BigPow2(b - 1)) >= 0 /\ BigCmp(a, BigPow2(b)) < 0

\* 2^52, 2^53
Two52 == <<496, 2737, 5996, 4503>>

Two53 == <<992, 5474, 1992, 9007>>

\* the double nearest to (n + f) * 2^e, ties to even, where 0 <= f < 1 and
\* f > 0 iff sticky (then n >= 2^53)
RoundToDouble(n, e, sticky) ==
    IF n = << >> THEN [exponent |-> 0, mantissa |-> << >>]
    ELSE LET s == BitLength(n) - 53 IN
         IF s <= 0
         THEN [exponent |-> e + s, mantissa |-> BigTimesPow2(n, -s)]
         ELSE LET h == BigOverPow2(n, s - 1)
                  q == BigHalf(h[1])
                  up == BigIsOdd(h[1]) /\ (sticky \/ h[2] \/ BigIsOdd(q))
                  m == IF up THEN BigPlus(q, <<1>>) ELSE q
              IN IF BigCmp(m, Two53) = 0
                 THEN [exponent |-> e + s + 1, mantissa |-> Two52]
                 ELSE [exponent |-> e + s, mantissa |-> m]

\* the number a JSON literal with the digits n and scale fraction digits
\* parses to: n / 10^scale
DoubleOfDecimal(n, scale) ==
    LET t == 60 + 4 * scale
        q == BigOverPow10(BigTimesPow2(n, t), scale)
    IN RoundToDouble(q[1], -t, q[2])

\* Number(s) of a decimal integer string
NumberOfString(n) == RoundToDouble(n, 0, FALSE)

\* x * 10 ** k, 0 <= k <= 22 (10 ** k is then a double itself)
DoubleTimesPow10(x, k) ==
    RoundToDouble(BigTimesPow5(x.mantissa, k), x.exponent + k, FALSE)

\* x / 10 ** k, 0 <= k <= 22
DoubleOverPow10(x, k) ==
    LET t == 3 * k + 4
        q == BigOverPow5(BigTimesPow2(x.mantissa, t), k)
    IN RoundToDouble(q[1], x.exponent - k - t, q[2])

\* floor(n / 2^k + 1/2), k > 0
BigRoundShift(n, k) ==
    LET h == BigOverPow2(n, k - 1)[1]
    IN IF BigIsOdd(h) THEN BigPlus(BigHalf(h), <<1>>) ELSE BigHalf(h)

\* Math.round(x) for x >= 0: floor(x + 1/2), as a natural number
MathRoundOfDouble(x) ==
    IF x.exponent >= 0 THEN BigTimesPow2(x.mantissa, x.exponent)
    ELSE IF x.exponent < -53 THEN << >>
    ELSE BigRoundShift(x.mantissa, -x.exponent)

\* the multiple of 10^j nearest to n
NearestMultiple(n, j) ==
    LET down == BigTimesPow10(BigOverPow10(n, j)[1], j)
        up == BigPlus(down, BigTimesPow10(<<1>>, j))
    IN IF BigCmp(BigMinus(n, down), BigMinus(up, n)) <= 0 THEN down ELSE up

\* whether the decimal c parses to the double x, whose value is n
ReadsBackAs(c, n, x) ==
    LET gap == BigPow2(x.exponent)
        below == BigCmp(c, n) < 0
        diff == IF below THEN BigMinus(n, c) ELSE BigMinus(c, n)
        twice == BigTimesSmall(diff, IF below /\ BigCmp(x.mantissa, Two52) = 0
                                     THEN 4 ELSE 2)
        side == BigCmp(twice, gap)
    IN side < 0 \/ (side = 0 /\ ~BigIsOdd(x.mantissa))

\* the decimal with the fewest significant digits that parses to x
Shortest(n, x) ==
    LET zeros == {j \in 0..22 : ReadsBackAs(NearestMultiple(n, j), n, x)}
    IN NearestMultiple(n, CHOOSE j \in zeros : \A k \in zeros : k <= j)

\* n.toString() for an integer-valued number 0 <= n < 10^21: the digits of
\* the shortest decimal that parses to the same double
NumberToString(n) ==
    LET x == NumberOfString(n)
    IN IF x.mantissa = << >> \/ x.exponent <= 0 THEN n ELSE Shortest(n, x)

(***************************************************************************)
(* State                                                                   *)
(***************************************************************************)
VARIABLES
    secret,         \* process.env.SOLANA_PRIVATE_KEY
    decimalsCache,  \* solana.ts decimalsCache: mint -> decimals
    ledger,         \* broadcast transactions; the submission id is the index
    pc,             \* per slot: the await the handler is suspended at
    op,             \* per slot: the tool that was called
    args,           \* per slot: the parsed parameters
    locals,         \* per slot: the handler's local variables
    trace,          \* per slot: the external calls made so far, in order
    result,         \* per slot: what the handler returned or threw
    started,        \* invocations dispatched so far
    accountReads,   \* getParsedAccountInfo reads issued, per mint
    failedReads,    \* of those, the reads that threw or had no parsed data
    calc            \* one amount conversion, statement by statement

serverVars == <<secret, decimalsCache, ledger, pc, op, args, locals, trace,
                result, started, accountReads, failedReads>>

vars == <<serverVars, calc>>

NoResult == [kind |-> "none"]

NoLocals == [id |-> 0,
             leg |-> "none"]

NoCalc == [stage |-> "none"]

InitServer ==
    /\ secret \in Secrets
    /\ decimalsCache = [m \in {} |-> 0]
    /\ ledger = << >>
    /\ pc = [i \in Slots |-> "idle"]
    /\ op = [i \in Slots |-> "none"]
    /\ args = [i \in Slots |-> [token_address |-> "none"]]
    /\ locals = [i \in Slots |-> NoLocals]
    /\ trace = [i \in Slots |-> << >>]
    /\ result = [i \in Slots |-> NoResult]
    /\ started = 0
    /\ accountReads = [m \in ValidPublicKeys |-> 0]
    /\ failedReads = [m \in ValidPublicKeys |-> 0]

Init ==
    /\ InitServer
    /\ calc = NoCalc

(***************************************************************************)
(* Outcome of one run of handler code between two awaits: where it stops,  *)
(* its locals, what it returned (if it did) and the calls it issued.       *)
(***************************************************************************)
Ev(call, leg, mints, amount) ==
    [amount |-> amount,
     call |-> call,
     leg |-> leg,
     mints |-> mints]

Suspend(at, l, calls) ==
    [calls |-> calls,
     locals |-> l,
     pc |-> at,
     result |-> NoResult]

Return(l, r, calls) ==
    [calls |-> calls,
     locals |-> l,
     pc |-> "done",
     result |-> r]

\* { content: [{ type: "text", text: JSON.stringify(obj) }] }
JsonText(obj) == [json |-> obj,
                  kind |-> "json"]

\* mutant: the text is the message alone
ErrorTextBare(msg) == [kind |-> "text", text |-> msg]

\* { content: [{ type: "text", text: `Error: ${msg}` }] }
ErrorText(msg) == [kind |-> "text", text |-> <<"Error: ">> \o msg]

\* the exception leaves the handler
Thrown(msg) == [kind |-> "thrown", message |-> msg]

Explorer(txid) == <<"https://solscan.io/tx/", txid>>

(***************************************************************************)
(* solana.ts                                                               *)
(***************************************************************************)
\* getKeypair: the keypair, or the Error it throws
getKeypair ==
    IF secret = "absent"
    THEN [msg |-> <<"SOLANA_PRIVATE_KEY environment variable is not set. Required for signing transactions.">>,
          ok |-> FALSE]
    ELSE IF secret = "malformed"
    THEN [msg |-> <<"Invalid SOLANA_PRIVATE_KEY. Must be a base58-encoded private key.">>,
          ok |-> FALSE]
    ELSE [msg |-> << >>,
          ok |-> TRUE]

\* mutant: the lookup never consults the cache
CacheNeverHits(cache, m) == FALSE

\* decimalsCache.get(mintAddress) !== undefined
CacheHas(cache, m) == m \in DOMAIN cache

\* decimalsCache.set(mintAddress, decimals)
CacheSet(cache, m, d) == (m :> d) @@ cache

(***************************************************************************)
(* The catch blocks of index.ts                                            *)
(***************************************************************************)
\* mutant: buy_and_sell's catch blocks return the `Error: ${msg}` text of the
\* other tools
BuyAndSellCaughtAsText(a, l, msg) == ErrorText(msg)

\* mutant: step 2's catch reports an error without the buy
BuyAndSellCaughtNoPartial(a, l, msg) ==
    IF l.leg = "none"
    THEN Thrown(msg)
    ELSE JsonText([error |-> msg,
                   phase |-> l.leg,
                   status |-> "error"])

\* buy_and_sell: outside both try blocks, step 1's catch, step 2's catch
BuyAndSellCaught(a, l, msg) ==
    IF l.leg = "buy"
    THEN JsonText([error |-> msg,
                   phase |-> "buy",
                   status |-> "error"])
    ELSE IF l.leg = "sell"
    THEN JsonText([buy_transaction |-> l.buyTxid,
                   explorer |-> Explorer(l.buyTxid),
                   sell_error |-> msg,
                   sol_spent |-> a.sol_amount,
                   status |-> "partial",
                   token_mint |-> a.token_address,
                   token_received |-> l.buyOutAmount])
    ELSE Thrown(msg)

\* what the handler of tool o does with an Error(msg) raised in its body
Caught(o, a, l, msg) ==
    IF o = "buy_and_sell" THEN BuyAndSellCaught(a, l, msg) ELSE ErrorText(msg)

\* mutant: the catch requests the quote of the failed leg once more
ThrowAndRetry(o, a, l, msg, calls) ==
    Return([error |-> msg] @@ l, Caught(o, a, l, msg),
           calls \o <<Ev("quote", l.leg, << >>, 0)>>)

\* the Error is raised and caught (or not): error is the catch's binding
Throw(o, a, l, msg, calls) ==
    Return([error |-> msg] @@ l, Caught(o, a, l, msg), calls)

(***************************************************************************)
(* jupiter.ts                                                              *)
(***************************************************************************)
\* getQuote up to its fetch
getQuote(l, inputMint, outputMint, amount, slippageBps) ==
    Suspend("quote",
            [req |-> [amount |-> amount,
                      inputMint |-> inputMint,
                      outputMint |-> outputMint,
                      slippageBps |-> slippageBps]] @@ l,
            <<Ev("quote", l.leg, <<inputMint, outputMint>>, amount)>>)

\* response.json() of a successful quote
QuoteOf(req, outAmount) ==
    [inAmount |-> req.amount,
     inputMint |-> req.inputMint,
     outAmount |-> outAmount,
     outputMint |-> req.outputMint,
     slippageBps |-> req.slippageBps]

\* mutant: the message carries the status only
QuoteFailedWithoutBody(status, body) == <<"Jupiter quote failed (", status, ")">>

QuoteFailed(status, body) == <<"Jupiter quote failed (", status, "): ", body>>

SwapFailed(status, body) == <<"Jupiter swap failed (", status, "): ", body>>

FetchTimeout == <<"The operation was aborted due to timeout">>

\* executeSwap up to its fetch of /swap
executeSwap(l, quote) ==
    Suspend("build", [quote |-> quote] @@ l, <<Ev("build", l.leg, << >>, 0)>>)

\* the calls of a synchronous prefix, then the outcome of what follows it
Then(calls, out) == [out EXCEPT !.calls = calls \o @]

(***************************************************************************)
(* index.ts: the handlers, from the call to the first await                *)
(***************************************************************************)
\* mutant: the mint is passed on as given
ResolveMintAsGiven(mint) == mint

\* input_mint === "SOL" ? SOL_MINT : input_mint
ResolveMint(mint) == IF mint = "SOL" THEN SOL_MINT ELSE mint

\* Math.round(amount * 10 ** decimals)
RawAmount(amount, decimals) == MathRound(NumTimes(amount, Pow10(decimals)))

\* Math.round(sol_amount * LAMPORTS_PER_SOL)
RawSolAmount(sol_amount) == MathRound(NumTimes(sol_amount, LAMPORTS_PER_SOL))

WalletCall(l) == <<Ev("getKeypair", l.leg, << >>, 0)>>

get_quote(a, l) ==
    getQuote(l, ResolveMint(a.input_mint), ResolveMint(a.output_mint),
             RawAmount(a.amount, a.input_decimals), a.slippage_bps)

buy_token(a, l) ==
    LET keypair == getKeypair IN
    IF ~keypair.ok
    THEN Throw("buy_token", a, l, keypair.msg, WalletCall(l))
    ELSE Then(WalletCall(l),
              getQuote(l, SOL_MINT, a.token_address,
                       RawSolAmount(a.sol_amount), a.slippage_bps))

sell_token(a, l) ==
    LET keypair == getKeypair IN
    IF ~keypair.ok
    THEN Throw("sell_token", a, l, keypair.msg, WalletCall(l))
    ELSE Then(WalletCall(l),
              getQuote(l, a.token_address, SOL_MINT,
                       RawAmount(a.token_amount, a.token_decimals),
                       a.slippage_bps))

\* getKeypair() is called before the first try: l.leg is still "none" there
buy_and_sell(a, l) ==
    LET keypair == getKeypair
        inTry == [l EXCEPT !.leg = "buy"]
    IN
    IF ~keypair.ok
    THEN Throw("buy_and_sell", a, l, keypair.msg, WalletCall(l))
    ELSE Then(WalletCall(l),
              getQuote(inTry, SOL_MINT, a.token_address,
                       RawSolAmount(a.sol_amount), a.slippage_bps))

get_balance(a, l) ==
    LET keypair == getKeypair IN
    IF ~keypair.ok
    THEN Throw("get_balance", a, l, keypair.msg, WalletCall(l))
    ELSE Suspend("balance", l,
                 WalletCall(l) \o <<Ev("getBalance", l.leg, << >>, 0)>>)

Handler(o, a, l) ==
    CASE o = "get_quote" -> get_quote(a, l)
      [] o = "buy_token" -> buy_token(a, l)
      [] o = "sell_token" -> sell_token(a, l)
      [] o = "buy_and_sell" -> buy_and_sell(a, l)
      [] o = "get_balance" -> get_balance(a, l)

(***************************************************************************)
(* index.ts: the handlers, after an await                                  *)
(***************************************************************************)
\* getQuote after a response that is not ok: the Error it throws, in the handler
QuoteNotOk(o, a, l, response) ==
    Throw(o, a, [response |-> response] @@ l,
          QuoteFailed(response.status, response.body), << >>)

\* get_quote's summary; the others pass the quote to executeSwap
AfterQuote(o, a, l, quote) ==
    IF o = "get_quote"
    THEN Return(l, JsonText([inputAmount |-> quote.inAmount,
                             inputMint |-> quote.inputMint,
                             outputAmount |-> quote.outAmount,
                             outputMint |-> quote.outputMint,
                             slippageBps |-> quote.slippageBps]), << >>)
    ELSE executeSwap(l, quote)

\* buy_and_sell, after getTokenDecimals returned: the sell quote
SellQuote(a, l, tokenDecimals) ==
    LET tokenAmount == NumOver(NumberOf(l.buyOutAmount), Pow10(tokenDecimals))
        rawTokenAmount == MathRound(NumTimes(tokenAmount, Pow10(tokenDecimals)))
    IN getQuote([tokenDecimals |-> tokenDecimals] @@ l,
                a.token_address, SOL_MINT, rawTokenAmount, a.slippage_bps)

InvalidPublicKey == <<"Invalid public key input">>

\* getTokenDecimals up to its read, or through it on a cache hit
getTokenDecimals(o, a, l, cache, mintAddress) ==
    IF CacheHas(cache, mintAddress)
    THEN SellQuote(a, l, cache[mintAddress])
    ELSE IF mintAddress \notin ValidPublicKeys
    THEN Throw(o, a, l, InvalidPublicKey, << >>)
    ELSE Suspend("decimals", l,
                 <<Ev("getParsedAccountInfo", l.leg, <<mintAddress>>, 0)>>)

BuySuccess(a, l, txid) ==
    JsonText([explorer |-> Explorer(txid),
              solSpent |-> a.sol_amount,
              status |-> "success",
              tokenMint |-> a.token_address,
              tokenReceived |-> l.quote.outAmount,
              transaction |-> txid])

SellSuccess(a, l, txid) ==
    JsonText([explorer |-> Explorer(txid),
              solReceived |-> NumOver(NumberOf(l.quote.outAmount), LAMPORTS_PER_SOL),
              status |-> "success",
              tokenMint |-> a.token_address,
              tokenSold |-> a.token_amount,
              transaction |-> txid])

\* mutant: the operands of the difference are swapped
ProfitSolReversed(solReceived, sol_amount) == NumMinus(sol_amount, solReceived)

\* sol_received - sol_amount
ProfitSol(solReceived, sol_amount) == NumMinus(solReceived, sol_amount)

BuyAndSellSuccess(a, l, sellTxid) ==
    LET solReceived == NumOver(NumberOf(l.quote.outAmount), LAMPORTS_PER_SOL)
        tokenAmount == NumOver(NumberOf(l.buyOutAmount), Pow10(l.tokenDecimals))
        profitSol == ProfitSol(solReceived, a.sol_amount)
    IN JsonText([buy_transaction |-> l.buyTxid,
                 explorer_buy |-> Explorer(l.buyTxid),
                 explorer_sell |-> Explorer(sellTxid),
                 net_sol |-> profitSol,
                 profit_sol |-> profitSol,
                 sell_transaction |-> sellTxid,
                 sol_received |-> solReceived,
                 sol_spent |-> a.sol_amount,
                 status |-> "success",
                 token_mint |-> a.token_address,
                 token_received |-> l.buyOutAmount,
                 token_sold |-> tokenAmount])

\* buy_and_sell after the buy's executeSwap returned: step 2 begins
\* mutant: step 2 takes the native asset's decimals and looks nothing up
AfterBuyWithoutLookup(a, l, txid, cache) ==
    SellQuote(a, [buyOutAmount |-> l.quote.outAmount,
                  buyQuote |-> l.quote,
                  buyTxid |-> txid,
                  leg |-> "sell"] @@ l, SOL_DECIMALS)

AfterBuy(a, l, txid, cache) ==
    getTokenDecimals("buy_and_sell", a,
                     [buyOutAmount |-> l.quote.outAmount,
                      buyQuote |-> l.quote,
                      buyTxid |-> txid,
                      leg |-> "sell"] @@ l,
                     cache, a.token_address)

\* the handler after executeSwap returned txid
AfterSwap(o, a, l, txid, cache) ==
    CASE o = "buy_token" -> Return(l, BuySuccess(a, l, txid), << >>)
      [] o = "sell_token" -> Return(l, SellSuccess(a, l, txid), << >>)
      [] o = "buy_and_sell" /\ l.leg = "buy" -> AfterBuy(a, l, txid, cache)
      [] o = "buy_and_sell" /\ l.leg = "sell" ->
            Return(l, BuyAndSellSuccess(a, l, txid), << >>)

\* executeSwap after the /swap response: deserialize, sign, sendRawTransaction
SignAndSend(l) ==
    Suspend("send", l, <<Ev("sign", l.leg, << >>, 0),
                         Ev("sendRawTransaction", l.leg, << >>, 0)>>)

\* executeSwap after sendRawTransaction returned txid: getLatestBlockhash
FetchBlockhash(l, txid) ==
    Suspend("blockhash", [txid |-> txid] @@ l,
            <<Ev("getLatestBlockhash", l.leg, << >>, 0)>>)

\* executeSwap after getLatestBlockhash: confirmTransaction
AwaitConfirmation(l) ==
    Suspend("confirm", l, <<Ev("confirmTransaction", l.leg, << >>, 0)>>)

\* mutant: executeSwap returns once the transaction is broadcast
ResolvesOnBroadcast(status) == status \in {"pending", "confirmed", "failed"}

\* commitment levels at which confirmTransaction(..., "confirmed") resolves;
\* its value (value.err of a transaction that failed on chain) is not read
Resolves(status) == status \in {"confirmed", "failed"}

SendFailed == <<"failed to send transaction">>

BlockhashFailed == <<"failed to get recent blockhash">>

Expired(txid) == <<"Signature ", txid, " has expired: block height exceeded.">>

ConfirmFailed == <<"Transaction was not confirmed">>

DecimalsFailed(m) == <<"Failed to fetch decimals for mint ", m>>

RpcFailed == <<"failed to get info about account">>

\* getTokenDecimals after a read with parsed data: the cache after the set
CacheAfterRead(cache, m, decimals) == CacheSet(cache, m, decimals)

\* mutant: a failed read evicts the entry of the mint
CacheEvictedOnFailure(cache, m) ==
    [x \in (DOMAIN cache) \ {m} |-> cache[x]]

\* getTokenDecimals after a read that threw or had no parsed data
CacheAfterFailedRead(cache, m) == cache

WalletAddress == "wallet"

\* get_balance after getSolBalance: the optional token balance
AfterBalance(a, l, lamports) ==
    LET solBalance == NumOver(NumberOf(lamports), LAMPORTS_PER_SOL) IN
    IF "token_address" \notin DOMAIN a \/ a.token_address = ""
    THEN Return(l, JsonText([solBalance |-> solBalance,
                             wallet |-> WalletAddress]), << >>)
    ELSE IF a.token_address \notin ValidPublicKeys
    THEN Throw("get_balance", a, l, InvalidPublicKey, << >>)
    ELSE Suspend("tokenBalance", [solBalance |-> solBalance] @@ l,
                 <<Ev("getParsedTokenAccountsByOwner", l.leg,
                      <<a.token_address>>, 0)>>)

\* holder accounts getParsedTokenAccountsByOwner can list (tokenAmount of each)
TokenAccountLists ==
    {<< >>, <<[amount |-> "15", decimals |-> 1, uiAmount |-> <<3, 2>>]>>}

\* mutant: no holder account gives a snapshot with the decimals of SOL
getTokenBalanceSolDecimals(accounts) ==
    IF Len(accounts) = 0
    THEN [amount |-> "0", decimals |-> SOL_DECIMALS, uiAmount |-> <<0, 1>>]
    ELSE accounts[1]

\* getTokenBalance after its read
getTokenBalance(accounts) ==
    IF Len(accounts) = 0
    THEN [amount |-> "0", decimals |-> 0, uiAmount |-> <<0, 1>>]
    ELSE accounts[1]

AfterTokenBalance(a, l, accounts) ==
    LET tokenBal == getTokenBalance(accounts) IN
    Return([tokenAccounts |-> accounts] @@ l,
           JsonText([solBalance |-> l.solBalance,
                     tokenBalance |-> [amount |-> tokenBal.amount,
                                       decimals |-> tokenBal.decimals,
                                       mint |-> a.token_address,
                                       uiAmount |-> tokenBal.uiAmount],
                     wallet |-> WalletAddress]),
           << >>)

(***************************************************************************)
(* index.ts: the parameter schemas.  The arguments of a call are a JSON     *)
(* object: a number is a fraction <<n, d>>, a field can be missing.         *)
(* server.tool() parses them with the schema before it calls the handler.   *)
(***************************************************************************)
Has(raw, f) == f \in DOMAIN raw

\* {}
NoArguments == [f \in {} |-> 0]

Without(raw, f) == [g \in (DOMAIN raw) \ {f} |-> raw[g]]

\* z.string()
RequiredString(raw, f) == Has(raw, f)

\* z.number().positive()
PositiveNumber(raw, f) == Has(raw, f) /\ raw[f][1] > 0

\* z.number().int().min(0).max(18)
DecimalsInRange(x) == x[2] = 1 /\ x[1] >= 0 /\ x[1] <= 18

\* mutant: slippage_bps is an integer of any size
SlippageSchemaNoRange(raw) ==
    Has(raw, "slippage_bps") => raw.slippage_bps[2] = 1

\* z.number().int().min(1).max(5000).default(50)
SlippageSchema(raw) ==
    Has(raw, "slippage_bps") =>
        LET x == raw.slippage_bps IN x[2] = 1 /\ x[1] >= 1 /\ x[1] <= 5000

\* the JavaScript number of a JSON number: an integer, or the fraction
NumberValue(x) == IF x[2] = 1 THEN x[1] ELSE x

\* .default(d)
WithDefault(raw, f, d) == IF Has(raw, f) THEN NumberValue(raw[f]) ELSE d

Schema(o, raw) ==
    CASE o = "get_quote" ->
            /\ RequiredString(raw, "input_mint")
            /\ RequiredString(raw, "output_mint")
            /\ PositiveNumber(raw, "amount")
            /\ Has(raw, "input_decimals") => DecimalsInRange(raw.input_decimals)
            /\ SlippageSchema(raw)
      [] o \in {"buy_token", "buy_and_sell"} ->
            /\ RequiredString(raw, "token_address")
            /\ PositiveNumber(raw, "sol_amount")
            /\ SlippageSchema(raw)
      [] o = "sell_token" ->
            /\ RequiredString(raw, "token_address")
            /\ PositiveNumber(raw, "token_amount")
            /\ Has(raw, "token_decimals")
            /\ DecimalsInRange(raw.token_decimals)
            /\ SlippageSchema(raw)
      [] o = "get_balance" -> TRUE

\* the parsed arguments the handler is called with
Parse(o, raw) ==
    CASE o = "get_quote" ->
            [amount |-> raw.amount,
             input_decimals |-> WithDefault(raw, "input_decimals", SOL_DECIMALS),
             input_mint |-> raw.input_mint,
             output_mint |-> raw.output_mint,
             slippage_bps |-> WithDefault(raw, "slippage_bps", 50)]
      [] o \in {"buy_token", "buy_and_sell"} ->
            [slippage_bps |-> WithDefault(raw, "slippage_bps", 50),
             sol_amount |-> raw.sol_amount,
             token_address |-> raw.token_address]
      [] o = "sell_token" ->
            [slippage_bps |-> WithDefault(raw, "slippage_bps", 50),
             token_address |-> raw.token_address,
             token_amount |-> raw.token_amount,
             token_decimals |-> NumberValue(raw.token_decimals)]
      [] o = "get_balance" -> raw

\* arguments with one field left out, and with one number out of its range
OneFieldOff(base, fields, amount, decimals) ==
    {Without(base, f) : f \in fields \cup {"slippage_bps"}}
    \cup {[base EXCEPT ![amount] = x] : x \in InvalidAmounts}
    \cup {[base EXCEPT ![f] = x] : f \in decimals, x \in InvalidDecimals}
    \cup {[base EXCEPT !["slippage_bps"] = x] : x \in InvalidSlippages}

(***************************************************************************)
(* Actions                                                                 *)
(***************************************************************************)
ReadsOf(calls, m) ==
    Cardinality({k \in 1..Len(calls) :
                    /\ calls[k].call = "getParsedAccountInfo"
                    /\ calls[k].mints = <<m>>})

\* slot i runs handler code to its next await or to its return
Apply(i, out) ==
    /\ pc' = [pc EXCEPT ![i] = out.pc]
    /\ locals' = [locals EXCEPT ![i] = out.locals]
    /\ result' = [result EXCEPT ![i] = out.result]
    /\ trace' = [trace EXCEPT ![i] = @ \o out.calls]
    /\ accountReads' =
          [m \in ValidPublicKeys |-> accountReads[m] + ReadsOf(out.calls, m)]

Fails(i, msg) == Apply(i, Throw(op[i], args[i], locals[i], msg, << >>))

\* slot i takes the next tool call: the lowest free slot
Free(i) ==
    /\ started < MaxInvocations
    /\ pc[i] = "idle"
    /\ \A j \in Slots : j < i => pc[j] # "idle"

\* the transport dispatches a tool call to the handler
Dispatch(i, o, a) ==
    /\ Free(i)
    /\ started' = started + 1
    /\ op' = [op EXCEPT ![i] = o]
    /\ args' = [args EXCEPT ![i] = a]
    /\ Apply(i, Handler(o, a, [id |-> started + 1,
                               leg |-> IF o = "buy_and_sell" THEN "none" ELSE "only"]))
    /\ UNCHANGED <<calc, secret, decimalsCache, ledger, failedReads>>

\* the arguments do not parse: the handler is not called
Reject(i, o, raw) ==
    /\ Free(i)
    /\ started' = started + 1
    /\ pc' = [pc EXCEPT ![i] = "rejected"]
    /\ args' = [args EXCEPT ![i] = raw]
    /\ result' = [result EXCEPT ![i] = [kind |-> "invalid",
                                        tool |-> o]]
    /\ UNCHANGED <<calc, secret, decimalsCache, ledger, op, locals, trace,
                   accountReads, failedReads>>

\* a tools/call request for tool o arrives
CallTool(i, o, raw) ==
    /\ Free(i)
    /\ IF Schema(o, raw) THEN Dispatch(i, o, Parse(o, raw)) ELSE Reject(i, o, raw)

GetQuoteParams ==
    {[amount |-> am,
      input_decimals |-> <<d, 1>>,
      input_mint |-> im,
      output_mint |-> om,
      slippage_bps |-> <<s, 1>>] :
        im \in QuoteMints, om \in QuoteMints, am \in SolAmounts,
        d \in {SOL_DECIMALS}, s \in SlippageBps}

CallGetQuote(i) ==
    Free(i) /\ \E raw \in GetQuoteParams \cup
                OneFieldOff([amount |-> <<1, 2>>,
                             input_decimals |-> <<SOL_DECIMALS, 1>>,
                             input_mint |-> "SOL",
                             output_mint |-> "MintA",
                             slippage_bps |-> <<50, 1>>],
                            {"input_mint", "output_mint", "amount", "input_decimals"},
                            "amount", {"input_decimals"}) :
        CallTool(i, "get_quote", raw)

BuyParams(tokens) ==
    {[slippage_bps |-> <<s, 1>>,
      sol_amount |-> am,
      token_address |-> t] :
        t \in tokens, am \in SolAmounts, s \in SlippageBps}
    \cup OneFieldOff([slippage_bps |-> <<50, 1>>,
                      sol_amount |-> <<1, 2>>,
                      token_address |-> "MintA"],
                     {"token_address", "sol_amount"}, "sol_amount", {})

CallBuyToken(i) ==
    Free(i) /\ \E raw \in BuyParams(QuoteMints) : CallTool(i, "buy_token", raw)

SellParams ==
    {[slippage_bps |-> <<s, 1>>,
      token_address |-> t,
      token_amount |-> am,
      token_decimals |-> <<d, 1>>] :
        t \in QuoteMints, am \in TokenAmounts, d \in TokenDecimals,
        s \in SlippageBps}
    \cup OneFieldOff([slippage_bps |-> <<50, 1>>,
                      token_address |-> "MintA",
                      token_amount |-> <<3, 2>>,
                      token_decimals |-> <<1, 1>>],
                     {"token_address", "token_amount", "token_decimals"},
                     "token_amount", {"token_decimals"})

CallSellToken(i) ==
    Free(i) /\ \E raw \in SellParams : CallTool(i, "sell_token", raw)

CallBuyAndSell(i) ==
    Free(i) /\ \E raw \in BuyParams(Tokens) : CallTool(i, "buy_and_sell", raw)

CallGetBalance(i) ==
    Free(i) /\ \E raw \in {NoArguments} \cup {[token_address |-> t] : t \in QuoteMints \cup {""}} :
        CallTool(i, "get_balance", raw)

\* outAmount of the quotes the service can answer a request with; a mint that
\* is no address (the literal "SOL") gets a non-success answer only
OutAmounts(req) ==
    IF {req.inputMint, req.outputMint} \subseteq ValidPublicKeys
    THEN IF req.outputMint = SOL_MINT THEN SellOutAmounts ELSE BuyOutAmounts
    ELSE {}

\* the aggregation service answers GET /quote
QuoteResponse(i) ==
    /\ pc[i] = "quote"
    /\ \/ \E outAmount \in OutAmounts(locals[i].req) :
             Apply(i, AfterQuote(op[i], args[i], locals[i],
                                 QuoteOf(locals[i].req, outAmount)))
       \/ \E f \in HttpFailures :
             Apply(i, QuoteNotOk(op[i], args[i], locals[i],
                                 [body |-> f[2],
                                  status |-> f[1]]))
       \/ Fails(i, FetchTimeout)
    /\ UNCHANGED <<calc, secret, decimalsCache, ledger, op, args, started, failedReads>>

\* the aggregation service answers POST /swap
BuildResponse(i) ==
    /\ pc[i] = "build"
    /\ \/ Apply(i, SignAndSend(locals[i]))
       \/ \E f \in HttpFailures : Fails(i, SwapFailed(f[1], f[2]))
       \/ Fails(i, FetchTimeout)
    /\ UNCHANGED <<calc, secret, decimalsCache, ledger, op, args, started, failedReads>>

\* the RPC endpoint answers sendRawTransaction
SendResponse(i) ==
    /\ pc[i] = "send"
    /\ \/ /\ ledger' = Append(ledger, [id |-> locals[i].id,
                                       leg |-> locals[i].leg,
                                       status |-> "pending"])
          /\ Apply(i, FetchBlockhash(locals[i], Len(ledger) + 1))
       \/ /\ Fails(i, SendFailed)
          /\ UNCHANGED ledger
    /\ UNCHANGED <<calc, secret, decimalsCache, op, args, started, failedReads>>

\* the RPC endpoint answers getLatestBlockhash
BlockhashResponse(i) ==
    /\ pc[i] = "blockhash"
    /\ \/ Apply(i, AwaitConfirmation(locals[i]))
       \/ Fails(i, BlockhashFailed)
    /\ UNCHANGED <<calc, secret, decimalsCache, ledger, op, args, started, failedReads>>

\* confirmTransaction settles
ConfirmResponse(i) ==
    /\ pc[i] = "confirm"
    /\ \/ /\ Resolves(ledger[locals[i].txid].status)
          /\ Apply(i, AfterSwap(op[i], args[i], locals[i], locals[i].txid,
                                decimalsCache))
       \/ /\ ledger[locals[i].txid].status = "expired"
          /\ Fails(i, Expired(locals[i].txid))
       \/ Fails(i, ConfirmFailed)
    /\ UNCHANGED <<calc, secret, decimalsCache, ledger, op, args, started, failedReads>>

\* the RPC endpoint answers getParsedAccountInfo
DecimalsResponse(i) ==
    /\ pc[i] = "decimals"
    /\ LET m == args[i].token_address IN
       \/ /\ decimalsCache' = CacheAfterRead(decimalsCache, m, OnChainDecimals[m])
          /\ Apply(i, SellQuote(args[i], locals[i], OnChainDecimals[m]))
          /\ UNCHANGED failedReads
       \/ /\ decimalsCache' = CacheAfterFailedRead(decimalsCache, m)
          /\ Fails(i, DecimalsFailed(m))
          /\ failedReads' = [failedReads EXCEPT ![m] = @ + 1]
       \/ /\ decimalsCache' = CacheAfterFailedRead(decimalsCache, m)
          /\ Fails(i, RpcFailed)
          /\ failedReads' = [failedReads EXCEPT ![m] = @ + 1]
    /\ UNCHANGED <<calc, secret, ledger, op, args, started>>

\* the RPC endpoint answers getBalance
BalanceResponse(i) ==
    /\ pc[i] = "balance"
    /\ \/ \E lamports \in BalanceLamports :
             Apply(i, AfterBalance(args[i], locals[i], lamports))
       \/ Fails(i, RpcFailed)
    /\ UNCHANGED <<calc, secret, decimalsCache, ledger, op, args, started, failedReads>>

\* the RPC endpoint answers getParsedTokenAccountsByOwner
TokenBalanceResponse(i) ==
    /\ pc[i] = "tokenBalance"
    /\ \/ \E accounts \in TokenAccountLists :
             Apply(i, AfterTokenBalance(args[i], locals[i], accounts))
       \/ Fails(i, RpcFailed)
    /\ UNCHANGED <<calc, secret, decimalsCache, ledger, op, args, started, failedReads>>

\* the ledger settles a broadcast transaction
LedgerSettles(t) ==
    /\ ledger[t].status = "pending"
    /\ \E st \in {"confirmed", "failed", "expired"} :
          ledger' = [ledger EXCEPT ![t].status = st]
    /\ UNCHANGED <<calc, secret, decimalsCache, pc, op, args, locals, trace, result,
                   started, accountReads, failedReads>>

\* the transport sends the handler's result; the slot is free again
Deliver(i) ==
    /\ pc[i] \in {"done", "rejected"}
    /\ pc' = [pc EXCEPT ![i] = "idle"]
    /\ op' = [op EXCEPT ![i] = "none"]
    /\ args' = [args EXCEPT ![i] = [token_address |-> "none"]]
    /\ locals' = [locals EXCEPT ![i] = NoLocals]
    /\ trace' = [trace EXCEPT ![i] = << >>]
    /\ result' = [result EXCEPT ![i] = NoResult]
    /\ UNCHANGED <<calc, secret, decimalsCache, ledger, started, accountReads,
                   failedReads>>

Next ==
    \/ \E i \in Slots : CallGetQuote(i)
    \/ \E i \in Slots : CallBuyToken(i)
    \/ \E i \in Slots : CallSellToken(i)
    \/ \E i \in Slots : CallBuyAndSell(i)
    \/ \E i \in Slots : CallGetBalance(i)
    \/ \E i \in Slots : QuoteResponse(i)
    \/ \E i \in Slots : BuildResponse(i)
    \/ \E i \in Slots : SendResponse(i)
    \/ \E i \in Slots : BlockhashResponse(i)
    \/ \E i \in Slots : ConfirmResponse(i)
    \/ \E i \in Slots : DecimalsResponse(i)
    \/ \E i \in Slots : BalanceResponse(i)
    \/ \E i \in Slots : TokenBalanceResponse(i)
    \/ \E t \in 1..Len(ledger) : LedgerSettles(t)
    \/ \E i \in Slots : Deliver(i)

Spec == Init /\ [][Next]_vars

\* run to completion: a tool call is dispatched only when no other is running
Running == {i \in Slots : pc[i] # "idle"}

SeqNext ==
    \/ \E i \in Slots : Running = {} /\ CallGetQuote(i)
    \/ \E i \in Slots : Running = {} /\ CallBuyToken(i)
    \/ \E i \in Slots : Running = {} /\ CallSellToken(i)
    \/ \E i \in Slots : Running = {} /\ CallBuyAndSell(i)
    \/ \E i \in Slots : Running = {} /\ CallGetBalance(i)
    \/ \E i \in Slots : QuoteResponse(i)
    \/ \E i \in Slots : BuildResponse(i)
    \/ \E i \in Slots : SendResponse(i)
    \/ \E i \in Slots : BlockhashResponse(i)
    \/ \E i \in Slots : ConfirmResponse(i)
    \/ \E i \in Slots : DecimalsResponse(i)
    \/ \E i \in Slots : BalanceResponse(i)
    \/ \E i \in Slots : TokenBalanceResponse(i)
    \/ \E t \in 1..Len(ledger) : LedgerSettles(t)
    \/ \E i \in Slots : Deliver(i)

SpecSeq == Init /\ [][SeqNext]_vars

\* every external call that was issued is answered or fails (the fetches
\* carry a timeout, the RPC calls settle or reject), a pending transaction
\* settles or expires, and the transport takes the handler's result
Responds ==
    /\ \A i \in Slots :
          /\ WF_vars(QuoteResponse(i))
          /\ WF_vars(BuildResponse(i))
          /\ WF_vars(SendResponse(i))
          /\ WF_vars(BlockhashResponse(i))
          /\ WF_vars(ConfirmResponse(i))
          /\ WF_vars(DecimalsResponse(i))
          /\ WF_vars(BalanceResponse(i))
          /\ WF_vars(TokenBalanceResponse(i))
          /\ WF_vars(Deliver(i))
    /\ WF_vars(\E t \in 1..Len(ledger) : LedgerSettles(t))

SpecFair == SpecSeq /\ Responds

(***************************************************************************)
(* The amount conversions on doubles: the statements of index.ts and       *)
(* jupiter.ts that turn a human amount into the amount parameter of a      *)
(* quote request, one action per statement.  The state starts at any       *)
(* arguments of the bounded sets below.                                    *)
(***************************************************************************)
Decimal(n, scale) == [digits |-> BigOfInt(n), scale |-> scale]

\* amounts a caller writes: 0.5, 1.5, 1.1, 2.2, 1.005, 0.285, 1, 0.000001,
\* 123456.789, 1000000
HumanAmounts ==
    {Decimal(5, 1), Decimal(15, 1), Decimal(11, 1), Decimal(22, 1),
     Decimal(1005, 3), Decimal(285, 3), Decimal(1, 0), Decimal(1, 6),
     Decimal(123456789, 3), Decimal(1000000, 0)}

\* decimals the schemas accept
AmountDecimals == 0..18

\* the largest amount of an SPL token account (u64)
MaxU64 == BigMinus(BigPow2(64), <<1>>)

\* outAmount strings of a buy quote: 15, 1500000, 123456789,
\* 2500446096702815, 2^53, 2^53 + 1, 10^18, 2^64 - 1
RawOutAmounts ==
    {BigOfInt(15), BigOfInt(1500000), BigOfInt(123456789),
     <<2815, 9670, 4460, 2500>>, Two53, BigPlus(Two53, <<1>>),
     BigTimesPow10(<<1>>, 18), MaxU64}

\* round(n / 10^scale * 10^decimals) of the decimal literal, a tie going
\* away from zero, in exact arithmetic
RoundOfLiteral(amount, decimals) ==
    LET twice == BigTimesSmall(BigTimesPow10(amount.digits, decimals), 2)
        one == BigTimesPow10(<<1>>, amount.scale)
    IN BigHalf(BigOverPow10(BigPlus(twice, one), amount.scale)[1])

\* the same of the double the literal parses to
RoundOfDouble(x, decimals) ==
    LET n == BigTimesPow10(x.mantissa, decimals)
    IN IF x.exponent >= 0
       THEN BigTimesPow2(n, x.exponent)
       ELSE BigRoundShift(n, -x.exponent)

\* Math.round(amount * 10 ** decimals)
RawAmountOfDouble(amount, decimals) ==
    MathRoundOfDouble(DoubleTimesPow10(amount, decimals))

\* Number(outAmount) / 10 ** tokenDecimals
TokenAmountOfDouble(outAmount, tokenDecimals) ==
    DoubleOverPow10(NumberOfString(outAmount), tokenDecimals)

SingleSwapTools == {"get_quote", "buy_token", "sell_token"}

\* the arguments of a single swap: buy_token has no decimals parameter, its
\* factor is LAMPORTS_PER_SOL
AmountArguments ==
    {[amount |-> a,
      decimals |-> d,
      stage |-> "arguments",
      tool |-> t] :
        a \in HumanAmounts, d \in AmountDecimals, t \in SingleSwapTools}

ValidAmountArguments ==
    {c \in AmountArguments :
        /\ c.tool = "buy_token" => c.decimals = SOL_DECIMALS
        /\ BigCmp(RoundOfLiteral(c.amount, c.decimals), MaxU64) <= 0}

\* buy_and_sell after its buy: the outAmount of the buy quote and the
\* decimals of the mint
BuyQuoteResults ==
    {[decimals |-> d,
      outAmount |-> raw,
      stage |-> "buyQuote",
      tool |-> "buy_and_sell"] :
        d \in AmountDecimals, raw \in RawOutAmounts}

InitAmounts ==
    /\ InitServer
    /\ secret = "valid"
    /\ calc \in ValidAmountArguments \cup BuyQuoteResults

\* const rawAmount = Math.round(amount * 10 ** input_decimals), and the
\* same statement of buy_token and sell_token
ComputeRawAmount ==
    /\ calc.stage = "arguments"
    /\ LET amount == DoubleOfDecimal(calc.amount.digits, calc.amount.scale)
       IN calc' = [rawAmount |-> RawAmountOfDouble(amount, calc.decimals),
                   stage |-> "rawAmount"] @@ calc
    /\ UNCHANGED serverVars

\* const tokenAmount = Number(buyOutAmount) / 10 ** tokenDecimals
ComputeTokenAmount ==
    /\ calc.stage = "buyQuote"
    /\ calc' = [stage |-> "tokenAmount",
                tokenAmount |->
                    TokenAmountOfDouble(calc.outAmount, calc.decimals)] @@ calc
    /\ UNCHANGED serverVars

\* const rawTokenAmount = Math.round(tokenAmount * 10 ** tokenDecimals)
ComputeRawTokenAmount ==
    /\ calc.stage = "tokenAmount"
    /\ calc' = [rawAmount |->
                    RawAmountOfDouble(calc.tokenAmount, calc.decimals),
                stage |-> "rawAmount"] @@ calc
    /\ UNCHANGED serverVars

\* getQuote: amount: amount.toString()
AmountToString ==
    /\ calc.stage = "rawAmount"
    /\ calc' = [param |-> NumberToString(calc.rawAmount),
                stage |-> "sent"] @@ calc
    /\ UNCHANGED serverVars

NextAmounts ==
    \/ ComputeRawAmount
    \/ ComputeTokenAmount
    \/ ComputeRawTokenAmount
    \/ AmountToString

SpecAmounts == InitAmounts /\ [][NextAmounts]_vars

(***************************************************************************)
(* Vocabulary of the properties                                            *)
(***************************************************************************)
NetworkCalls ==
    {"quote", "build", "sendRawTransaction", "getLatestBlockhash",
     "confirmTransaction", "getParsedAccountInfo", "getBalance",
     "getParsedTokenAccountsByOwner"}

CountCalls(i, c) ==
    Cardinality({k \in 1..Len(trace[i]) : trace[i][k].call = c})

NoNetworkCall(i) == \A k \in 1..Len(trace[i]) : trace[i][k].call \notin NetworkCalls

\* an Error was raised in the body of the handler in slot i
Raised(i) == "error" \in DOMAIN locals[i]

Finished(i, o) == op[i] = o /\ pc[i] = "done"

\* the transactions invocation id broadcast in the given leg
TxOf(id, leg) ==
    {t \in 1..Len(ledger) : ledger[t].id = id /\ ledger[t].leg = leg}

IsTextResponse(r) == r.kind \in {"json", "text"}

\* C1: every handler turns every failure raised in its body into a text
\* response; no exception leaves a handler.
C1_NoHandlerThrows ==
    \A i \in Slots : pc[i] = "done" => IsTextResponse(result[i])

\* the buy leg of the buy_and_sell in slot i failed: an Error was raised after
\* the buy quote was requested and before the buy's executeSwap returned
BuyLegFailed(i) ==
    /\ Finished(i, "buy_and_sell")
    /\ Raised(i)
    /\ CountCalls(i, "quote") >= 1
    /\ "buyTxid" \notin DOMAIN locals[i]

\* C2: when the buy leg of buy_and_sell fails the result is status "error",
\* phase "buy", and the invocation made no sell attempt: no decimals lookup,
\* no second quote, build or broadcast.
C2_BuyFailureReportsBuyAndSkipsSell ==
    \A i \in Slots : BuyLegFailed(i) =>
        /\ result[i].kind = "json"
        /\ result[i].json.status = "error"
        /\ result[i].json.phase = "buy"
        /\ result[i].json.error = locals[i].error
        /\ \A k \in 1..Len(trace[i]) : trace[i][k].leg # "sell"
        /\ CountCalls(i, "getParsedAccountInfo") = 0
        /\ CountCalls(i, "quote") = 1
        /\ CountCalls(i, "build") <= 1
        /\ CountCalls(i, "sendRawTransaction") <= 1

\* a buy leg that failed after its transaction was broadcast
C2_Witness ==
    \E i \in Slots : BuyLegFailed(i) /\ CountCalls(i, "sendRawTransaction") = 1

\* the buy's executeSwap returned and an Error was raised after it
SellLegFailed(i) ==
    /\ Finished(i, "buy_and_sell")
    /\ Raised(i)
    /\ "buyTxid" \in DOMAIN locals[i]

\* C3: when the buy leg succeeded and the sell leg fails the result is status
\* "partial" with the buy's submission id, the SOL spent, the raw token amount
\* of the buy quote and the sell-side error message, and no sell submission id.
C3_SellFailureReportsPartial ==
    \A i \in Slots : SellLegFailed(i) =>
        /\ result[i].kind = "json"
        /\ result[i].json.status = "partial"
        /\ result[i].json.buy_transaction \in TxOf(locals[i].id, "buy")
        /\ result[i].json.sol_spent = args[i].sol_amount
        /\ result[i].json.token_received = locals[i].buyQuote.outAmount
        /\ result[i].json.sell_error = locals[i].error
        /\ "sell_transaction" \notin DOMAIN result[i].json

\* a sell leg that failed after the sell quote was requested
C3_Witness ==
    \E i \in Slots : SellLegFailed(i) /\ CountCalls(i, "quote") = 2

Executed(id, leg) == \E t \in TxOf(id, leg) : ledger[t].status = "confirmed"

BuyAndSellStatus(i, st) ==
    /\ Finished(i, "buy_and_sell")
    /\ result[i].kind = "json"
    /\ result[i].json.status = st

\* C4: status "error"/phase "buy" means no buy of the invocation is executed
\* on the ledger; status "partial" means a buy is executed and no sell is.
C4_StatusMatchesLedger ==
    \A i \in Slots :
        /\ BuyAndSellStatus(i, "error") => ~Executed(locals[i].id, "buy")
        /\ BuyAndSellStatus(i, "partial") =>
              /\ Executed(locals[i].id, "buy")
              /\ ~Executed(locals[i].id, "sell")

SwapSteps ==
    <<"build", "sign", "sendRawTransaction", "getLatestBlockhash",
      "confirmTransaction">>

\* the calls executeSwap made for one leg of the invocation in slot i
SwapCallsOf(i, leg) ==
    LET InSwap(e) == e.leg = leg /\ e.call \in {SwapSteps[k] : k \in 1..5}
    IN SelectSeq(trace[i], InSwap)

InOrder(calls) ==
    /\ Len(calls) <= Len(SwapSteps)
    /\ \A k \in 1..Len(calls) : calls[k].call = SwapSteps[k]

IsSwapSuccess(i) ==
    /\ op[i] \in {"buy_token", "sell_token", "buy_and_sell"}
    /\ result[i].kind = "json"
    /\ result[i].json.status = "success"

\* the submission ids executeSwap has returned to the handler in slot i
ReturnedIds(i) ==
    (IF "buyTxid" \in DOMAIN locals[i] THEN {locals[i].buyTxid} ELSE {})
    \cup (IF IsSwapSuccess(i)
          THEN IF op[i] = "buy_and_sell"
               THEN {result[i].json.sell_transaction}
               ELSE {result[i].json.transaction}
          ELSE {})

\* a submission at "confirmed" commitment: in a confirmed block, whether its
\* instructions succeeded or not
AtConfirmed(t) == ledger[t].status \in {"confirmed", "failed"}

C5_ReturnedIdsAreConfirmed ==
    \A i \in Slots :
        /\ \A leg \in {"only", "buy", "sell"} : InOrder(SwapCallsOf(i, leg))
        /\ \A t \in ReturnedIds(i) :
              /\ AtConfirmed(t)
              /\ ledger[t].id = locals[i].id
              /\ Len(SwapCallsOf(i, ledger[t].leg)) = Len(SwapSteps)

C5_WaitDecides ==
    \A i \in Slots :
        (/\ pc[i] = "confirm"
         /\ pc'[i] # "confirm"
         /\ ~AtConfirmed(locals[i].txid)) =>
            /\ pc'[i] = "done"
            /\ "error" \in DOMAIN locals'[i]
            /\ ReturnedIds(i)' = ReturnedIds(i)

\* C5: executeSwap returns a submission id only once the submission is at
\* "confirmed" commitment on the ledger, its steps run in the order build,
\* sign, broadcast, fetch block reference, wait, and a wait that ends on
\* anything but confirmation makes the call fail without returning the id.
C5_IdOnlyAfterConfirmation ==
    []C5_ReturnedIdsAreConfirmed /\ [][C5_WaitDecides]_vars

\* buy_token returned a submission id
C5_Witness ==
    \E i \in Slots : Finished(i, "buy_token") /\ IsSwapSuccess(i)

\* C6: when both legs succeed the result is status "success" with both
\* submission ids, net_sol = sol_received - sol_spent (signed), and net_sol
\* and profit_sol are the same value.
C6_NetSolIsReceivedMinusSpent ==
    \A i \in Slots : (Finished(i, "buy_and_sell") /\ ~Raised(i)) =>
        LET j == result[i].json
            r == j.sol_received
            sp == j.sol_spent
        IN /\ result[i].kind = "json"
           /\ j.status = "success"
           /\ j.buy_transaction \in TxOf(locals[i].id, "buy")
           /\ j.sell_transaction \in TxOf(locals[i].id, "sell")
           /\ sp = args[i].sol_amount
           /\ LAMPORTS_PER_SOL % r[2] = 0
           /\ r[1] * (LAMPORTS_PER_SOL \div r[2]) = locals[i].quote.outAmount
           /\ j.net_sol[1] * (r[2] * sp[2])
                 = (r[1] * sp[2] - sp[1] * r[2]) * j.net_sol[2]
           /\ j.net_sol = j.profit_sol

\* a round trip that ended with a loss
C6_Witness ==
    \E i \in Slots :
        /\ Finished(i, "buy_and_sell")
        /\ ~Raised(i)
        /\ result[i].json.net_sol[1] < 0

WalletTools == {"buy_token", "sell_token", "buy_and_sell", "get_balance"}

\* C7: with the secret absent every wallet-dependent tool returns a
\* descriptive failure before any network call, and get_quote requests its
\* quote without resolving the wallet.
C7_AbsentSecretBlocksWalletTools ==
    secret = "absent" =>
        \A i \in Slots :
            /\ op[i] \in WalletTools =>
                  /\ NoNetworkCall(i)
                  /\ pc[i] = "done"
                  /\ IsTextResponse(result[i])
            /\ op[i] = "get_quote" =>
                  /\ CountCalls(i, "getKeypair") = 0
                  /\ CountCalls(i, "quote") = 1

MintOf(i) == args[i].token_address

C8_OneReadPerMint ==
    /\ \A m \in ValidPublicKeys : accountReads[m] - failedReads[m] <= 1
    /\ \A i \in Slots :
          (op[i] = "buy_and_sell" /\ "tokenDecimals" \in DOMAIN locals[i]) =>
              /\ MintOf(i) \in DOMAIN decimalsCache
              /\ decimalsCache[MintOf(i)] = locals[i].tokenDecimals

EntryChanged(m) ==
    \/ (m \in DOMAIN decimalsCache) # (m \in DOMAIN decimalsCache')
    \/ /\ m \in DOMAIN decimalsCache
       /\ m \in DOMAIN decimalsCache'
       /\ decimalsCache'[m] # decimalsCache[m]

C8_LookupsAreIndependent ==
    \A m \in ValidPublicKeys :
        (EntryChanged(m) \/ accountReads'[m] # accountReads[m]) =>
            \E i \in Slots :
                /\ op[i] = "buy_and_sell"
                /\ MintOf(i) = m
                /\ pc[i] \in {"confirm", "decimals"}
                /\ pc'[i] # pc[i]

\* C8: of the lookups of one asset id made one after the other, exactly one
\* read that was answered reaches the network, the later ones return the
\* cached value, and a lookup touches neither the cache entry nor the reads of
\* another asset id.
C8_SequentialLookupsReadOnce ==
    []C8_OneReadPerMint /\ [][C8_LookupsAreIndependent]_vars

\* a second buy_and_sell of a mint got its decimals without a network read
C8_Witness ==
    \E i \in Slots :
        /\ op[i] = "buy_and_sell"
        /\ locals[i].id = 2
        /\ "tokenDecimals" \in DOMAIN locals[i]
        /\ CountCalls(i, "getParsedAccountInfo") = 0
        /\ accountReads[MintOf(i)] = 1

\* C9: an asset id that has a cached value keeps that value in every step of
\* every interleaving.
C9_CacheIsWriteOnce ==
    [][\A m \in DOMAIN decimalsCache :
          /\ m \in DOMAIN decimalsCache'
          /\ decimalsCache'[m] = decimalsCache[m]]_vars

\* two lookups of one uncached mint were suspended at the read together and
\* both were answered
C9_Witness ==
    \E m \in ValidPublicKeys :
        /\ m \in DOMAIN decimalsCache
        /\ accountReads[m] = 2
        /\ failedReads[m] = 0
        /\ \A i \in Slots :
              /\ op[i] = "buy_and_sell"
              /\ MintOf(i) = m
              /\ "tokenDecimals" \in DOMAIN locals[i]
              /\ CountCalls(i, "getParsedAccountInfo") = 1

\* the mints a call of the trace passed to the service or to the ledger
MintsPassed(i) ==
    UNION {{trace[i][k].mints[n] : n \in 1..Len(trace[i][k].mints)} :
              k \in 1..Len(trace[i])}

QuoteCallsOf(i) == SelectSeq(trace[i], LAMBDA e : e.call = "quote")

Expected(mint) == IF mint = "SOL" THEN SOL_MINT ELSE mint

AmountFields == {"amount", "sol_amount", "token_amount"}

DecimalsFields == {"input_decimals", "token_decimals"}

RequiredFields(tool) ==
    CASE tool = "get_quote" -> {"input_mint", "output_mint", "amount"}
      [] tool \in {"buy_token", "buy_and_sell"} -> {"token_address", "sol_amount"}
      [] tool = "sell_token" -> {"token_address", "token_amount", "token_decimals"}
      [] tool = "get_balance" -> {}

NotAnIntegerIn(x, lo, hi) == x[2] # 1 \/ x[1] < lo \/ x[1] > hi

\* the JSON arguments break a declared constraint
ViolatesSchema(tool, raw) ==
    \/ \E f \in RequiredFields(tool) : f \notin DOMAIN raw
    \/ \E f \in AmountFields \cap DOMAIN raw : raw[f][1] <= 0
    \/ \E f \in DecimalsFields \cap DOMAIN raw : NotAnIntegerIn(raw[f], 0, 18)
    \/ /\ "slippage_bps" \in DOMAIN raw
       /\ NotAnIntegerIn(raw.slippage_bps, 1, 5000)

\* the arguments a handler runs with meet every declared constraint
WithinSchema(tool, a) ==
    /\ RequiredFields(tool) \subseteq DOMAIN a
    /\ \A f \in AmountFields \cap DOMAIN a : a[f][1] > 0
    /\ \A f \in DecimalsFields \cap DOMAIN a : a[f] \in 0..18
    /\ tool # "get_balance" => a.slippage_bps \in 1..5000

\* C11: a call whose parameters violate the declared schema is rejected
\* before any network call (no quote, build, ledger read or broadcast is made
\* for it), and a handler only ever runs with parameters inside the schema.
C11_InvalidParametersMakeNoCall ==
    \A i \in Slots :
        /\ pc[i] = "rejected" =>
              /\ ViolatesSchema(result[i].tool, args[i])
              /\ op[i] = "none"
              /\ trace[i] = << >>
        /\ op[i] # "none" => WithinSchema(op[i], args[i])

\* sell_token with token_decimals 19 was rejected while another call runs
C11_Witness ==
    \E i \in Slots :
        /\ pc[i] = "rejected"
        /\ result[i].tool = "sell_token"
        /\ "token_decimals" \in DOMAIN args[i]
        /\ args[i].token_decimals = <<19, 1>>

\* the aggregation service answered the quote request of slot i with a
\* non-success status
QuoteNotOkIn(i) == "response" \in DOMAIN locals[i]

\* C12: a non-success answer to a quote request makes get_quote, buy_token and
\* sell_token return exactly "Error: Jupiter quote failed (<status>): <body>"
\* with the upstream status and the body verbatim, and buy_token and
\* sell_token request no build and broadcast nothing after it.
C12_QuoteFailureIsSurfaced ==
    \A i \in Slots :
        (op[i] \in {"get_quote", "buy_token", "sell_token"} /\ QuoteNotOkIn(i)) =>
            /\ pc[i] = "done"
            /\ locals[i].error = <<"Jupiter quote failed (", locals[i].response.status,
                                   "): ", locals[i].response.body>>
            /\ result[i] = [kind |-> "text",
                            text |-> <<"Error: ", "Jupiter quote failed (",
                                       locals[i].response.status, "): ",
                                       locals[i].response.body>>]
            /\ CountCalls(i, "quote") = 1
            /\ CountCalls(i, "build") = 0
            /\ CountCalls(i, "sign") = 0
            /\ CountCalls(i, "sendRawTransaction") = 0
            /\ TxOf(locals[i].id, "only") = {}

\* buy_token got HTTP 429 for its quote
C12_Witness ==
    \E i \in Slots :
        /\ Finished(i, "buy_token")
        /\ QuoteNotOkIn(i)
        /\ locals[i].response.status = "429"

\* get_balance was called without an asset id
NoAssetId(i) == "token_address" \notin DOMAIN args[i] \/ args[i].token_address = ""

\* the wallet holds no account of the asset get_balance asked for
NoHolderAccount(i) ==
    /\ "tokenAccounts" \in DOMAIN locals[i]
    /\ locals[i].tokenAccounts = << >>

\* C13: get_balance returns, when the wallet holds no account of the asset, a
\* success envelope whose token snapshot is amount "0", decimals 0, uiAmount 0,
\* and, when no asset id is supplied, an envelope without a token snapshot
\* after the native-balance read alone.
C13_NoAccountIsZeroBalance ==
    \A i \in Slots : Finished(i, "get_balance") =>
        /\ NoHolderAccount(i) =>
              /\ ~Raised(i)
              /\ result[i].kind = "json"
              /\ result[i].json.wallet = WalletAddress
              /\ result[i].json.solBalance = locals[i].solBalance
              /\ result[i].json.tokenBalance.amount = "0"
              /\ result[i].json.tokenBalance.decimals = 0
              /\ result[i].json.tokenBalance.uiAmount = <<0, 1>>
        /\ NoAssetId(i) =>
              /\ CountCalls(i, "getParsedTokenAccountsByOwner") = 0
              /\ CountCalls(i, "getBalance") <= 1
              /\ \A k \in 1..Len(trace[i]) :
                    trace[i][k].call \in {"getKeypair", "getBalance"}
              /\ ~Raised(i) =>
                    /\ result[i].kind = "json"
                    /\ CountCalls(i, "getBalance") = 1
                    /\ "tokenBalance" \notin DOMAIN result[i].json

\* get_balance of a mint the wallet has no account of
C13_Witness ==
    \E i \in Slots :
        /\ Finished(i, "get_balance")
        /\ NoHolderAccount(i)
        /\ args[i].token_address = "MintA"

(***************************************************************************)
(* Amount conversions (SpecAmounts)                                        *)
(***************************************************************************)
Sent(tools) == calc.stage = "sent" /\ calc.tool \in tools

\* C14: for every valid human amount and decimals 0..18 the amount parameter
\* get_quote, buy_token and sell_token send is round(amount * 10^decimals),
\* a tie going away from zero, rounded once -- the amount read as the decimal
\* the caller wrote or as the double it parses to.
C14_RawAmountIsRounded ==
    Sent(SingleSwapTools) =>
        calc.param \in
            {RoundOfLiteral(calc.amount, calc.decimals),
             RoundOfDouble(DoubleOfDecimal(calc.amount.digits,
                                           calc.amount.scale),
                           calc.decimals)}

\* C17: in buy_and_sell the amount parameter of the sell quote is the
\* outAmount of the buy quote unchanged: dividing by 10^decimals, multiplying
\* back and rounding is the identity for every raw amount and decimals 0..18.
C17_RoundTripIsIdentity ==
    Sent({"buy_and_sell"}) => calc.param = calc.outAmount

(***************************************************************************)
(* The legs of buy_and_sell                                                *)
(***************************************************************************)
LegCalls(i, leg, c) ==
    Cardinality({k \in 1..Len(trace[i]) :
                    trace[i][k].call = c /\ trace[i][k].leg = leg})

OncePerLeg(i) ==
    /\ \A leg \in {"buy", "sell"} :
          /\ LegCalls(i, leg, "quote") <= 1
          /\ LegCalls(i, leg, "build") <= 1
          /\ LegCalls(i, leg, "sendRawTransaction") <= 1
          /\ Cardinality(TxOf(locals[i].id, leg)) <= 1
    /\ CountCalls(i, "quote") <= 2
    /\ CountCalls(i, "sendRawTransaction") <= 2

\* the step leaves the calls of slot i as they are (or hands the result over)
\* and broadcasts nothing for its invocation
NoCallInStep(i) ==
    /\ trace'[i] \in {trace[i], << >>}
    /\ \A t \in (Len(ledger) + 1)..Len(ledger') : ledger'[t].id # locals[i].id

\* C15: a buy_and_sell invocation neither retries nor undoes: each leg has at
\* most one quote request, one build request and one broadcast, the
\* invocation at most two quote requests and two broadcasts, and once a leg
\* has failed the invocation makes no further call.
C15_NoRetryNoUndo ==
    /\ [](\A i \in Slots : op[i] = "buy_and_sell" => OncePerLeg(i))
    /\ [][\A i \in Slots :
            op[i] = "buy_and_sell" /\ Raised(i) => NoCallInStep(i)]_vars

\* a sell leg that failed after both legs requested a quote and broadcast
C15_Witness ==
    \E i \in Slots :
        /\ SellLegFailed(i)
        /\ LegCalls(i, "buy", "sendRawTransaction") = 1
        /\ LegCalls(i, "sell", "sendRawTransaction") = 1

Sold(i) == BuyAndSellStatus(i, "success")

Partial(i) == BuyAndSellStatus(i, "partial")

Failed(i) == BuyAndSellStatus(i, "error") /\ result[i].json.phase = "buy"

Terminal(i) == Sold(i) \/ Partial(i) \/ Failed(i)

\* the buy and then the sell of the invocation were broadcast and their
\* confirmation resolved, and these are the transactions of the result
BoughtThenSold(i) ==
    \E b \in TxOf(locals[i].id, "buy"), s \in TxOf(locals[i].id, "sell") :
        /\ b < s
        /\ Resolves(ledger[b].status)
        /\ Resolves(ledger[s].status)
        /\ result[i].json.buy_transaction = b
        /\ result[i].json.sell_transaction = s

\* the result stays as it is until the transport takes it, and no call is
\* added
ResultStands(i) ==
    \/ pc'[i] = "idle"
    \/ result'[i] = result[i] /\ NoCallInStep(i)

\* a buy_and_sell that returned is in a terminal state, and in SOLD only
\* after both legs
EndsInTerminal(i) ==
    /\ Finished(i, "buy_and_sell") => Terminal(i)
    /\ Sold(i) => BoughtThenSold(i)

\* C16: every buy_and_sell invocation whose external calls all respond or
\* fail eventually ends in exactly one of SOLD (status "success"), PARTIAL
\* (status "partial") and FAILED (status "error", phase "buy"), returns one
\* envelope for it and makes no call afterwards; SOLD is reached only through
\* a successful buy followed by a successful sell.
C16_BuyAndSellEnds ==
    /\ \A i \in Slots : (op[i] = "buy_and_sell") ~> Terminal(i)
    /\ [](\A i \in Slots : EndsInTerminal(i))
    /\ [][\A i \in Slots : Terminal(i) => ResultStands(i)]_vars

\* the same for a server whose wallet key loads
C16_BuyAndSellEndsWhenKeyLoads ==
    /\ \A i \in Slots :
          (secret = "valid" /\ op[i] = "buy_and_sell") ~> Terminal(i)
    /\ [](secret = "valid" => \A i \in Slots : EndsInTerminal(i))
    /\ [][\A i \in Slots : Terminal(i) => ResultStands(i)]_vars

(***************************************************************************)
(* The decimals lookup of buy_and_sell                                     *)
(***************************************************************************)
PositionsOf(i, leg, c) ==
    {k \in 1..Len(trace[i]) : trace[i][k].call = c /\ trace[i][k].leg = leg}

BuyIsConfirmed(i) ==
    /\ "buyTxid" \in DOMAIN locals[i]
    /\ AtConfirmed(locals[i].buyTxid)

\* every read of the mint account comes after the buy's wait for confirmation
\* and before the sell quote, and reads the traded token
LookupInPlace(i) ==
    \A k \in 1..Len(trace[i]) : trace[i][k].call = "getParsedAccountInfo" =>
        /\ BuyIsConfirmed(i)
        /\ \E j \in PositionsOf(i, "buy", "confirmTransaction") : j < k
        /\ \A j \in PositionsOf(i, "sell", "quote") : k < j
        /\ trace[i][k].mints = <<args[i].token_address>>

\* the sell quote is requested with the decimals of the mint on the ledger
SellUsesOnChainDecimals(i) ==
    /\ "token_decimals" \notin DOMAIN args[i]
    /\ LegCalls(i, "sell", "quote") > 0 =>
          /\ BuyIsConfirmed(i)
          /\ "tokenDecimals" \in DOMAIN locals[i]
          /\ locals[i].tokenDecimals = OnChainDecimals[args[i].token_address]

\* the buy returned its id and getTokenDecimals threw
LookupFailed(i) == SellLegFailed(i) /\ "tokenDecimals" \notin DOMAIN locals[i]

LookupFailureIsPartial(i) ==
    LookupFailed(i) =>
        /\ Partial(i)
        /\ result[i].json.buy_transaction = locals[i].buyTxid
        /\ LegCalls(i, "sell", "quote") = 0

\* the step in which the lookup of slot i fails adds no entry for its token
FailedLookupCachesNothing(i) ==
    (~LookupFailed(i) /\ LookupFailed(i)') =>
        (args'[i].token_address \in DOMAIN decimalsCache' =>
            args'[i].token_address \in DOMAIN decimalsCache)

\* C18: in buy_and_sell the decimals of the traded token are looked up on the
\* ledger after the buy is confirmed and before the sell quote is requested,
\* never taken from the caller; when the lookup fails the result is PARTIAL
\* with the buy's submission id, no sell quote is requested and the cache
\* gains no entry for the token.
C18_LookupBetweenBuyAndSell ==
    /\ [](\A i \in Slots : op[i] = "buy_and_sell" =>
            /\ LookupInPlace(i)
            /\ SellUsesOnChainDecimals(i)
            /\ LookupFailureIsPartial(i))
    /\ [][\A i \in Slots : FailedLookupCachesNothing(i)]_vars

\* a lookup that failed at the read of the mint account
C18_Witness ==
    \E i \in Slots :
        /\ LookupFailed(i)
        /\ CountCalls(i, "getParsedAccountInfo") = 1
        /\ args[i].token_address \notin DOMAIN decimalsCache

(***************************************************************************)
(* The sequence of buy_token and sell_token                                *)
(***************************************************************************)
SingleSwap(i) == op[i] \in {"buy_token", "sell_token"}

\* resolve wallet, quote, then the steps of executeSwap
FixedSequence == <<"getKeypair", "quote">> \o SwapSteps

FollowsSequence(i) ==
    /\ Len(trace[i]) <= Len(FixedSequence)
    /\ \A k \in 1..Len(trace[i]) : trace[i][k].call = FixedSequence[k]

\* a step that was started had its predecessors' results
EarlierStepsSucceeded(i) ==
    /\ CountCalls(i, "quote") > 0 => secret = "valid"
    /\ CountCalls(i, "build") > 0 => "quote" \in DOMAIN locals[i]
    /\ CountCalls(i, "getLatestBlockhash") > 0 =>
          /\ "txid" \in DOMAIN locals[i]
          /\ locals[i].txid \in TxOf(locals[i].id, "only")

SuccessAfterExecuteSwap(i) ==
    IsSwapSuccess(i) =>
        /\ ~Raised(i)
        /\ Len(trace[i]) = Len(FixedSequence)
        /\ result[i].json.transaction = locals[i].txid
        /\ AtConfirmed(locals[i].txid)

FailureIsErrorText(i) ==
    /\ (pc[i] = "done" /\ ~Raised(i)) => IsSwapSuccess(i)
    /\ (pc[i] = "done" /\ Raised(i)) =>
          result[i] = [kind |-> "text", text |-> <<"Error: ">> \o locals[i].error]

\* the step of a running handler in which the Error is raised issues no call,
\* and no step after it does
FailureStopsTheSequence(i) ==
    /\ (pc[i] # "idle" /\ ~Raised(i) /\ Raised(i)') =>
          /\ trace'[i] = trace[i]
          /\ ledger' = ledger
    /\ Raised(i) => NoCallInStep(i)

\* C19: buy_token and sell_token follow one fixed sequence -- resolve wallet,
\* quote, build, sign, broadcast, await confirmation; a step starts only
\* after every earlier step succeeded, status "success" is returned only
\* after executeSwap returned a submission id, and a failure at any step
\* gives an "Error: "-prefixed text with no later step executed.
C19_SingleSwapSequence ==
    /\ [](\A i \in Slots : SingleSwap(i) =>
            /\ FollowsSequence(i)
            /\ EarlierStepsSucceeded(i)
            /\ SuccessAfterExecuteSwap(i)
            /\ FailureIsErrorText(i))
    /\ [][\A i \in Slots : SingleSwap(i) => FailureStopsTheSequence(i)]_vars

\* a sell_token whose build request failed: nothing signed or broadcast
C19_Witness ==
    \E i \in Slots :
        /\ Finished(i, "sell_token")
        /\ Raised(i)
        /\ CountCalls(i, "build") = 1
        /\ CountCalls(i, "sign") = 0
        /\ TxOf(locals[i].id, "only") = {}

====
